---- MODULE Spec2Model ----
(***************************************************************************)
(* A model of the crime-report extractor: the regex extractors and the     *)
(* retry/fallback wrapper of extractors.py, and the row pipeline of        *)
(* main.py (CrimeReportExtractor.process_row / process_all).               *)
(*                                                                         *)
(* The text of a Python string is a TLA+ string (TLC evaluates Len, \o and  *)
(* SubSeq on them).  A Python value, of whatever type, is a tagged record, *)
(* see "Values" below.                                                     *)
(***************************************************************************)
EXTENDS Integers, Sequences, FiniteSets, TLC

(***************************************************************************)
(* Bounds of the model.                                                    *)
(***************************************************************************)
\* the longest narrative, in words, the regex specifications draw
MaxWords == 2
\* the longest plate string, in characters, the plate specification draws
MaxPlateLen == 3
\* the largest retry count the orchestrator specification draws
MaxRetriesBound == 3
\* the most rows the input table of the pipeline specification holds
MaxRows == 2

(***************************************************************************)
(* Program constants.                                                      *)
(***************************************************************************)
MAX_RETRIES == 3
RETRY_DELAY == 1
\* the .{0,15} window of every entry-method pattern
EntryWindow == 15
\* description.strip()[:100]
DescCap == 100

(***************************************************************************)
(* str methods and the pieces of re the program uses, on ASCII text.       *)
(***************************************************************************)
LowerAlpha == "abcdefghijklmnopqrstuvwxyz"
UpperAlpha == "ABCDEFGHIJKLMNOPQRSTUVWXYZ"
Digits == "0123456789"

Ch(s, i) == SubSeq(s, i, i)

IndexIn(alpha, c) == CHOOSE i \in 1..Len(alpha) : Ch(alpha, i) = c

LowerSet == {Ch(LowerAlpha, i) : i \in 1..Len(LowerAlpha)}
UpperSet == {Ch(UpperAlpha, i) : i \in 1..Len(UpperAlpha)}
DigitSet == {Ch(Digits, i) : i \in 1..Len(Digits)}
ToUpper == [c \in LowerSet |-> Ch(UpperAlpha, IndexIn(LowerAlpha, c))]
ToLower == [c \in UpperSet |-> Ch(LowerAlpha, IndexIn(UpperAlpha, c))]

IsLowerCh(c) == c \in LowerSet
IsUpperCh(c) == c \in UpperSet
IsDigitCh(c) == c \in DigitSet
\* \w of re
IsWordCh(c) == IsLowerCh(c) \/ IsUpperCh(c) \/ IsDigitCh(c) \/ c = "_"
\* \s of re, and what str.strip() removes
IsSpaceCh(c) == c \in {" ", "\t", "\n", "\r", "\f"}

UpperCh(c) == IF IsLowerCh(c) THEN ToUpper[c] ELSE c
LowerCh(c) == IF IsUpperCh(c) THEN ToLower[c] ELSE c

RECURSIVE str_upper(_)
str_upper(s) == IF s = "" THEN "" ELSE UpperCh(Ch(s, 1)) \o str_upper(SubSeq(s, 2, Len(s)))

RECURSIVE str_lower(_)
str_lower(s) == IF s = "" THEN "" ELSE LowerCh(Ch(s, 1)) \o str_lower(SubSeq(s, 2, Len(s)))

\* s.replace(old, new) for a one-character old
RECURSIVE str_replace(_, _, _)
str_replace(s, old, new) ==
    IF s = "" THEN ""
    ELSE (IF Ch(s, 1) = old THEN new ELSE Ch(s, 1))
         \o str_replace(SubSeq(s, 2, Len(s)), old, new)

RECURSIVE str_lstrip(_)
str_lstrip(s) ==
    IF s # "" /\ IsSpaceCh(Ch(s, 1)) THEN str_lstrip(SubSeq(s, 2, Len(s))) ELSE s

RECURSIVE str_rstrip(_)
str_rstrip(s) ==
    IF s # "" /\ IsSpaceCh(Ch(s, Len(s))) THEN str_rstrip(SubSeq(s, 1, Len(s) - 1)) ELSE s

str_strip(s) == str_rstrip(str_lstrip(s))

\* s.title(): a letter is upper-cased after a non-letter and lower-cased after a letter
RECURSIVE TitleFrom(_, _)
TitleFrom(s, afterLetter) ==
    IF s = "" THEN ""
    ELSE LET c == Ch(s, 1)
             letter == IsLowerCh(c) \/ IsUpperCh(c)
         IN  (IF afterLetter THEN LowerCh(c) ELSE UpperCh(c))
             \o TitleFrom(SubSeq(s, 2, Len(s)), letter)

str_title(s) == TitleFrom(s, FALSE)

\* s[:n]
Prefix(s, n) == IF Len(s) <= n THEN s ELSE SubSeq(s, 1, n)

\* w occurs in s at position i
HasAt(s, w, i) == i >= 1 /\ i + Len(w) - 1 <= Len(s) /\ SubSeq(s, i, i + Len(w) - 1) = w

\* \b holds between positions i-1 and i of s
BoundaryBefore(s, i) ==
    LET l == i > 1 /\ i - 1 <= Len(s) /\ IsWordCh(Ch(s, i - 1))
        r == i >= 1 /\ i <= Len(s) /\ IsWordCh(Ch(s, i))
    IN  l # r

\* "." of re matches every character but the newline
DotRun(s, i, n) == \A k \in i..(i + n - 1) : k <= Len(s) /\ Ch(s, k) # "\n"

(***************************************************************************)
(* extract_entry_method_regex                                              *)
(***************************************************************************)
NotSpecified == "Not specified"

\* the dict entry_methods, in insertion order: (first){.0,15}(second)
entry_methods == <<
    [method |-> "window_smash", first |-> {"broke", "smashed", "shattered", "broken"},
                                second |-> {"window", "glass"}],
    [method |-> "door_pry",     first |-> {"pried", "forced", "jimmied", "pry"},
                                second |-> {"door", "entry"}],
    [method |-> "door_kick",    first |-> {"kicked", "boot", "kick"},
                                second |-> {"door"}],
    [method |-> "lock_pick",    first |-> {"picked", "pick"},
                                second |-> {"lock"}],
    [method |-> "unlocked",     first |-> {"unlocked", "open", "unsecured"},
                                second |-> {"door", "window", "entry"}],
    [method |-> "cut_screen",   first |-> {"cut", "sliced"},
                                second |-> {"screen", "mesh"}],
    [method |-> "garage_door",  first |-> {"garage", "overhead"},
                                second |-> {"door"}],
    [method |-> "unknown",      first |-> {"unknown", "undetermined"},
                                second |-> {"entry", "method", "access"}] >>

\* re.search(pattern, text) for the pattern of one entry method
PatternSearch(rule, text) ==
    \E i \in 1..Len(text) : \E a \in rule.first :
        /\ HasAt(text, a, i)
        /\ \E g \in 0..EntryWindow :
              /\ DotRun(text, i + Len(a), g)
              /\ \E b \in rule.second : HasAt(text, b, i + Len(a) + g)

\* the loop with an empty string returned when no pattern is found
RECURSIVE EntryLoopNoSentinel(_, _, _)
EntryLoopNoSentinel(methods, k, narrative_lower) ==
    IF k > Len(methods) THEN ""
    ELSE IF PatternSearch(methods[k], narrative_lower)
         THEN str_replace(methods[k].method, "_", " ")
         ELSE EntryLoopNoSentinel(methods, k + 1, narrative_lower)

\* the loop with no return at the first match: the last match is kept
RECURSIVE EntryLoopKeepsLast(_, _, _)
EntryLoopKeepsLast(methods, k, narrative_lower) ==
    IF k > Len(methods) THEN NotSpecified
    ELSE LET later == EntryLoopKeepsLast(methods, k + 1, narrative_lower)
         IN  IF later # NotSpecified THEN later
             ELSE IF PatternSearch(methods[k], narrative_lower)
                  THEN str_replace(methods[k].method, "_", " ")
                  ELSE NotSpecified

\* the for loop of extract_entry_method_regex from entry k on
RECURSIVE EntryLoop(_, _, _)
EntryLoop(methods, k, narrative_lower) ==
    IF k > Len(methods) THEN NotSpecified
    ELSE IF PatternSearch(methods[k], narrative_lower)
         THEN str_replace(methods[k].method, "_", " ")
         ELSE EntryLoop(methods, k + 1, narrative_lower)

extract_entry_method_regex(narrative) ==
    LET narrative_lower == str_lower(narrative)
    IN  EntryLoop(entry_methods, 1, narrative_lower)

(***************************************************************************)
(* Values.  A Python scalar is [t, s]: t its type ("None", "str", "int",   *)
(* or "raise" for a raised exception) and s its text.  A list or any value *)
(* used where a list is expected is [t, s, items].                         *)
(***************************************************************************)
PyNone == [t |-> "None", s |-> ""]
Str(s) == [t |-> "str", s |-> s]
Num(s) == [t |-> "int", s |-> s]
Raise(s) == [t |-> "raise", s |-> s]
List(items) == [t |-> "list", s |-> "", items |-> items]

\* str(v)
PyStr(v) ==
    CASE v.t = "None" -> "None"
      [] OTHER -> v.s

\* bool(v)
Truthy(v) ==
    CASE v.t = "None" -> FALSE
      [] v.t = "str"  -> v.s # ""
      [] v.t = "int"  -> v.s # "0"
      [] v.t = "list" -> v.items # << >>
      [] OTHER        -> TRUE

(***************************************************************************)
(* extract_license_plate_regex                                             *)
(***************************************************************************)
\* the list patterns: \b[0-9]{lead}[A-Z]{letters}[-\s]?[0-9]{digits}\b
patterns == <<
    [lead |-> 0, letters |-> 2..3, digits |-> 3..4],
    [lead |-> 1, letters |-> 2..3, digits |-> 3..3],
    [lead |-> 0, letters |-> 3..3, digits |-> 4..4] >>

\* the ways a pattern can be taken: nl letters, sp separators, nd digits
PlateShapes(pat) == [nl : pat.letters, sp : 0..1, nd : pat.digits]

\* the backtracking order of the greedy quantifiers: more first
Preferred(c, d) ==
    \/ c.nl > d.nl
    \/ c.nl = d.nl /\ c.sp > d.sp
    \/ c.nl = d.nl /\ c.sp = d.sp /\ c.nd >= d.nd

ShapeLen(pat, c) == pat.lead + c.nl + c.sp + c.nd

\* the pattern taken as shape c matches text at position i
ShapeMatchesAt(pat, c, text, i) ==
    LET l0 == i + pat.lead
        s0 == l0 + c.nl
        d0 == s0 + c.sp
        e0 == d0 + c.nd
    IN  /\ e0 - 1 <= Len(text)
        /\ \A k \in i..(l0 - 1) : IsDigitCh(Ch(text, k))
        /\ \A k \in l0..(s0 - 1) : IsUpperCh(Ch(text, k))
        /\ \A k \in s0..(d0 - 1) : Ch(text, k) = "-" \/ IsSpaceCh(Ch(text, k))
        /\ \A k \in d0..(e0 - 1) : IsDigitCh(Ch(text, k))
        /\ BoundaryBefore(text, e0)

PlateMatchesAt(pat, text, i) ==
    /\ BoundaryBefore(text, i)
    /\ \E c \in PlateShapes(pat) : ShapeMatchesAt(pat, c, text, i)

\* re.search(pattern, text) from position i on: the leftmost match, taken the
\* preferred way
RECURSIVE PlateSearchFrom(_, _, _)
PlateSearchFrom(pat, text, i) ==
    IF i > Len(text) THEN [found |-> FALSE, group0 |-> ""]
    ELSE IF PlateMatchesAt(pat, text, i)
         THEN LET ok == {c \in PlateShapes(pat) : ShapeMatchesAt(pat, c, text, i)}
                  c == CHOOSE x \in ok : \A y \in ok : Preferred(x, y)
              IN  [found |-> TRUE, group0 |-> SubSeq(text, i, i + ShapeLen(pat, c) - 1)]
         ELSE PlateSearchFrom(pat, text, i + 1)

PlateSearch(pat, text) == PlateSearchFrom(pat, text, 1)

\* the for loop of extract_license_plate_regex from pattern k on
RECURSIVE PlateLoop(_, _)
PlateLoop(k, narrative_upper) ==
    IF k > Len(patterns) THEN PyNone
    ELSE LET match == PlateSearch(patterns[k], narrative_upper)
         IN  IF match.found
             THEN Str(str_replace(str_replace(match.group0, " ", ""), "-", ""))
             ELSE PlateLoop(k + 1, narrative_upper)

extract_license_plate_regex(narrative) ==
    LET narrative_upper == str_upper(narrative) IN PlateLoop(1, narrative_upper)

(***************************************************************************)
(* extract_vehicle_regex and fallback_regex_extraction                     *)
(***************************************************************************)
makes == << "honda", "toyota", "ford", "chevrolet", "chevy", "nissan",
            "bmw", "mercedes", "tesla", "hyundai", "kia", "mazda",
            "dodge", "jeep", "ram", "gmc", "volkswagen", "vw", "audi",
            "lexus", "acura", "infiniti", "subaru", "volvo" >>

colors == << "black", "white", "red", "blue", "silver", "grey", "gray",
             "green", "yellow", "orange", "brown", "tan", "beige",
             "gold", "maroon", "purple" >>

\* re.search(r'\b' + word + r'\b', text)
WordSearch(word, text) ==
    \E i \in 1..Len(text) :
        /\ HasAt(text, word, i)
        /\ BoundaryBefore(text, i)
        /\ BoundaryBefore(text, i + Len(word))

\* "for w in words: if re.search(...): result = w.title(); break"
RECURSIVE FirstWord(_, _, _)
FirstWord(words, k, text) ==
    IF k > Len(words) THEN PyNone
    ELSE IF WordSearch(words[k], text) THEN Str(str_title(words[k]))
         ELSE FirstWord(words, k + 1, text)

extract_vehicle_regex(narrative) ==
    LET narrative_lower == str_lower(narrative)
    IN  [t     |-> "dict",
         make  |-> FirstWord(makes, 1, narrative_lower),
         model |-> PyNone,
         color |-> FirstWord(colors, 1, narrative_lower),
         plate |-> extract_license_plate_regex(narrative),
         other |-> PyNone]

\* any(vehicle.values()): the four keys, and any other key the dict holds
AnyVehicleValue(vehicle) ==
    \/ Truthy(vehicle.make) \/ Truthy(vehicle.model) \/ Truthy(vehicle.color)
    \/ Truthy(vehicle.plate) \/ Truthy(vehicle.other)

ResultKeys == {"method_of_entry", "suspects", "vehicles"}

\* fallback_regex_extraction without "if any(vehicle.values())"
FallbackAlwaysVehicle(narrative) ==
    LET vehicle == extract_vehicle_regex(narrative)
    IN  [keys            |-> ResultKeys,
         method_of_entry |-> Str(extract_entry_method_regex(narrative)),
         suspects        |-> List(<< >>),
         vehicles        |-> List(<<vehicle>>)]

fallback_regex_extraction(narrative) ==
    LET vehicle == extract_vehicle_regex(narrative)
    IN  [keys            |-> ResultKeys,
         method_of_entry |-> Str(extract_entry_method_regex(narrative)),
         suspects        |-> List(<< >>),
         vehicles        |-> IF AnyVehicleValue(vehicle) THEN List(<<vehicle>>) ELSE List(<< >>)]

(***************************************************************************)
(* clean_suspect_description and format_license_plate                      *)
(***************************************************************************)
\* description.strip()[:100]; a value that is no str has no strip()
clean_suspect_description(description) ==
    IF ~Truthy(description) \/ description = Str("null") THEN PyNone
    ELSE IF description.t # "str" THEN Raise("AttributeError")
    ELSE Str(Prefix(str_strip(description.s), DescCap))

\* plate.upper().replace(' ', '').replace('-', ''); a value that is no str has no upper()
format_license_plate(plate) ==
    IF ~Truthy(plate) \/ plate = Str("null") THEN PyNone
    ELSE IF plate.t # "str" THEN Raise("AttributeError")
    ELSE Str(str_replace(str_replace(str_upper(plate.s), " ", ""), "-", ""))


(***************************************************************************)
(* The remote service and extract_with_llm                                 *)
(***************************************************************************)
\* the placeholder held by a key the parsed object does not have
Absent == [t |-> "absent", s |-> ""]
AbsentList == [t |-> "absent", s |-> "", items |-> << >>]
NoObject == [keys |-> {}, method_of_entry |-> Absent, suspects |-> AbsentList,
             vehicles |-> AbsentList]

\* one element of "suspects" and of "vehicles"; other is the value of a key of a
\* vehicle beyond the four asked for (None when it has no such key)
Suspect(description) == [t |-> "dict", has_description |-> TRUE, description |-> description]
SuspectNoKey == [t |-> "dict", has_description |-> FALSE, description |-> Absent]
SuspectNoDict == [t |-> "str", has_description |-> FALSE, description |-> Absent]
Vehicle(make, model, color, plate) ==
    [t |-> "dict", make |-> make, model |-> model, color |-> color, plate |-> plate,
     other |-> PyNone]
VehicleNoDict == [t |-> "str", make |-> PyNone, model |-> PyNone, color |-> PyNone,
                  plate |-> PyNone, other |-> PyNone]

\* a parsed JSON object with the keys it has
Object(method, suspects, vehicles) ==
    [keys |-> {k \in ResultKeys : \/ k = "method_of_entry" /\ method.t # "absent"
                                  \/ k = "suspects" /\ suspects.t # "absent"
                                  \/ k = "vehicles" /\ vehicles.t # "absent"},
     method_of_entry |-> method, suspects |-> suspects, vehicles |-> vehicles]

\* what one request meets: requests.post raising, raise_for_status raising,
\* json.loads raising, a parsed document that is no dict, or a dict
FailureKinds == {"transport", "status", "invalid_json", "not_object"}
Reply(kind, obj) == [kind |-> kind, obj |-> obj]

\* extract_with_llm without the three "if key not in extracted_data" statements
ExtractNoBackfill(reply) ==
    IF reply.kind # "object"
    THEN [ok |-> FALSE, error |-> "LLM extraction failed: " \o reply.kind, value |-> NoObject]
    ELSE [ok |-> TRUE, error |-> "", value |-> reply.obj]

\* extract_with_llm on one reply: the dict returned, or the one Exception raised
extract_with_llm(reply) ==
    IF reply.kind # "object"
    THEN [ok |-> FALSE, error |-> "LLM extraction failed: " \o reply.kind, value |-> NoObject]
    ELSE LET d == reply.obj
         IN  [ok |-> TRUE, error |-> "",
              value |-> [keys |-> d.keys \cup ResultKeys,
                         method_of_entry |-> IF "method_of_entry" \in d.keys
                                             THEN d.method_of_entry ELSE PyNone,
                         suspects |-> IF "suspects" \in d.keys THEN d.suspects ELSE List(<< >>),
                         vehicles |-> IF "vehicles" \in d.keys THEN d.vehicles ELSE List(<< >>)]]

\* dict.get(key)
Get(d, key) ==
    IF key \notin d.keys THEN PyNone
    ELSE CASE key = "method_of_entry" -> d.method_of_entry
           [] key = "suspects" -> d.suspects
           [] key = "vehicles" -> d.vehicles

(***************************************************************************)
(* The inputs the specifications draw.                                     *)
(***************************************************************************)
LongText == "  " \o "0123456789012345678901234567890123456789012345678901234567890123456789"
                 \o "0123456789012345678901234567890123456789"

SuspectA == Suspect(Str(" tall male "))
SuspectB == Suspect(Str("female"))
SuspectC == Suspect(Str("third"))
SuspectBad == Suspect(Num("5"))

MethodValues == {Absent, PyNone, Str(""), Str("door pry")}

SuspectValues ==
    {AbsentList, [t |-> "None", s |-> "", items |-> << >>],
     [t |-> "str", s |-> "two men", items |-> << >>]}
    \cup {List(l) : l \in {<< >>, <<SuspectA>>, <<SuspectA, SuspectB>>,
                           <<SuspectA, SuspectB, SuspectC>>,
                           <<Suspect(Str("null")), SuspectB>>,
                           <<Suspect(PyNone), SuspectB>>,
                           <<Suspect(Str("   ")), SuspectB>>,
                           <<SuspectNoKey, SuspectB>>,
                           <<SuspectNoDict, SuspectB>>,
                           <<SuspectA, SuspectBad>>,
                           <<SuspectBad, SuspectB>>,
                           <<SuspectA, SuspectB, SuspectBad>>,
                           <<Suspect(Str(LongText))>>}}

VehicleRed == Vehicle(PyNone, PyNone, Str("red"), PyNone)
VehicleFull == Vehicle(Str("Toyota"), Str("Camry"), Str("red"), Str("abc-12 34"))
VehicleEmpty == Vehicle(PyNone, Str(""), PyNone, PyNone)
\* {"year": "2019"}: none of the four keys, one other key
VehicleYear == [Vehicle(PyNone, PyNone, PyNone, PyNone) EXCEPT !.other = Str("2019")]

VehicleValues ==
    {AbsentList, [t |-> "None", s |-> "", items |-> << >>]}
    \cup {List(l) : l \in {<< >>, <<VehicleFull>>, <<VehicleEmpty>>,
                           <<VehicleEmpty, VehicleRed, VehicleFull>>,
                           <<VehicleNoDict, VehicleFull>>,
                           <<VehicleRed, VehicleFull>>,
                           <<VehicleYear, VehicleFull>>,
                           <<Vehicle(Str("Ford"), PyNone, PyNone, Num("7"))>>,
                           <<Vehicle(PyNone, PyNone, PyNone, Str(" -"))>>}}

\* the objects the service answers with: each field varied against a plain rest
Objects ==
    {Object(m, List(<< >>), List(<< >>)) : m \in MethodValues}
    \cup {Object(Str("door pry"), su, List(<< >>)) : su \in SuspectValues}
    \cup {Object(PyNone, List(<< >>), v) : v \in VehicleValues}
    \cup {Object(Str("window smash"), List(<<SuspectA, SuspectBad>>), List(<<VehicleFull>>))}

Replies == {Reply(k, NoObject) : k \in FailureKinds} \cup {Reply("object", o) : o \in Objects}

\* the replies the rows of process_all meet: two of the failures, and every object
RowReplies == {r \in Replies : r.kind \in {"transport", "not_object", "object"}}

\* the narratives handed to the orchestrator
Narratives == {"x", "Unknown suspects broke rear window", "red Honda, plate ABC-1234"}

\* the narrative cells of the input table: None, NaN, and text
NaN == [t |-> "float", s |-> "nan"]
Cells == {PyNone, NaN, Str(""), Str("NaN"), Str("x"), Str("Unknown suspects broke rear window")}

(***************************************************************************)
(* The state.                                                              *)
(***************************************************************************)
VARIABLES
    pc,          \* where control is
    df,          \* self.df, the table: one record per row
    stats,       \* self.stats
    idx,         \* process_all: the index of the row at hand
    narrative,   \* extract_with_llm_safe: the narrative argument
    retries,     \* extract_with_llm_safe: retries
    attempt,     \* extract_with_llm_safe: the loop variable (iterations begun)
    last_error,  \* extract_with_llm_safe: last_error
    extracted,   \* what extract_with_llm_safe returned
    trace,       \* what the call did, in order: requests, sleeps, prints, the fallback
    plate,       \* format_license_plate: the argument
    once,        \* format_license_plate(plate)
    twice,       \* format_license_plate(once)
    method,      \* what extract_entry_method_regex returned
    again,       \* what a second call of fallback_regex_extraction returned
    response     \* extract_with_llm alone: what its request meets

vars == <<pc, df, stats, idx, narrative, retries, attempt, last_error, extracted, trace,
          plate, once, twice, method, again, response>>

\* one thing the call did: ev is "call" (n: the attempt, err: the failure raised or
\* "", val: the dict returned), "sleep" (n: the delay), "print" (n: the attempts
\* named, err: the error named) or "fallback"
Event(ev, n, err, val) == [ev |-> ev, n |-> n, err |-> err, val |-> val]

\* how many events of one kind the trace holds
Count(ev) == Cardinality({i \in 1..Len(trace) : trace[i].ev = ev})

(***************************************************************************)
(* extract_with_llm_safe                                                   *)
(***************************************************************************)
\* Attempt with "if attempt < retries - 1" left out: a sleep after every failure
AttemptSleepsAlways(reply) ==
    /\ pc = "attempt"
    /\ attempt < retries
    /\ LET r == extract_with_llm(reply)
           call == Event("call", attempt + 1, r.error, r.value)
       IN  IF r.ok
           THEN /\ extracted' = r.value
                /\ trace' = Append(trace, call)
                /\ pc' = "return"
                /\ UNCHANGED <<attempt, last_error>>
           ELSE /\ last_error' = Str(r.error)
                /\ trace' = trace \o <<call, Event("sleep", RETRY_DELAY, "", NoObject)>>
                /\ attempt' = attempt + 1
                /\ UNCHANGED <<pc, extracted>>
    /\ UNCHANGED <<narrative, retries, df, stats, idx, plate, once, twice, method, again, response>>

\* Attempt with the result kept but not returned: the loop goes on
AttemptFallsThrough(reply) ==
    /\ pc = "attempt"
    /\ attempt < retries
    /\ LET r == extract_with_llm(reply)
           call == Event("call", attempt + 1, r.error, r.value)
       IN  IF r.ok
           THEN /\ extracted' = r.value
                /\ trace' = Append(trace, call)
                /\ attempt' = attempt + 1
                /\ UNCHANGED <<pc, last_error>>
           ELSE /\ last_error' = Str(r.error)
                /\ trace' = IF attempt < retries - 1
                            THEN trace \o <<call, Event("sleep", RETRY_DELAY, "", NoObject)>>
                            ELSE Append(trace, call)
                /\ attempt' = attempt + 1
                /\ UNCHANGED <<pc, extracted>>
    /\ UNCHANGED <<narrative, retries, df, stats, idx, plate, once, twice, method, again, response>>

\* Attempt with an except clause that catches parse failures only
AttemptPropagates(reply) ==
    /\ pc = "attempt"
    /\ attempt < retries
    /\ LET r == extract_with_llm(reply)
           call == Event("call", attempt + 1, r.error, r.value)
       IN  IF r.ok
           THEN /\ extracted' = r.value
                /\ trace' = Append(trace, call)
                /\ pc' = "return"
                /\ UNCHANGED <<attempt, last_error>>
           ELSE IF reply.kind \in {"transport", "status"}
           THEN /\ trace' = Append(trace, call)
                /\ pc' = "raised"
                /\ UNCHANGED <<attempt, last_error, extracted>>
           ELSE /\ last_error' = Str(r.error)
                /\ trace' = IF attempt < retries - 1
                            THEN trace \o <<call, Event("sleep", RETRY_DELAY, "", NoObject)>>
                            ELSE Append(trace, call)
                /\ attempt' = attempt + 1
                /\ UNCHANGED <<pc, extracted>>
    /\ UNCHANGED <<narrative, retries, df, stats, idx, plate, once, twice, method, again, response>>

\* one iteration of "for attempt in range(retries)": the call of extract_with_llm
\* and either the return of its result or the except clause
Attempt(reply) ==
    /\ pc = "attempt"
    /\ attempt < retries
    /\ LET r == extract_with_llm(reply)
           call == Event("call", attempt + 1, r.error, r.value)
       IN  IF r.ok
           THEN /\ extracted' = r.value
                /\ trace' = Append(trace, call)
                /\ pc' = "return"
                /\ UNCHANGED <<attempt, last_error>>
           ELSE /\ last_error' = Str(r.error)
                /\ trace' = IF attempt < retries - 1
                            THEN trace \o <<call, Event("sleep", RETRY_DELAY, "", NoObject)>>
                            ELSE Append(trace, call)
                /\ attempt' = attempt + 1
                /\ UNCHANGED <<pc, extracted>>
    /\ UNCHANGED <<narrative, retries, df, stats, idx, plate, once, twice, method, again, response>>

\* Fallback without the two prints
FallbackNoWarning ==
    /\ pc = "attempt"
    /\ attempt >= retries
    /\ trace' = Append(trace, Event("fallback", 0, "", NoObject))
    /\ extracted' = fallback_regex_extraction(narrative)
    /\ pc' = "return"
    /\ UNCHANGED <<narrative, retries, attempt, last_error>>
    /\ UNCHANGED <<df, stats, idx, plate, once, twice, method, again, response>>

\* the loop is over: the two prints and fallback_regex_extraction
Fallback ==
    /\ pc = "attempt"
    /\ attempt >= retries
    /\ trace' = trace \o <<Event("print", retries, PyStr(last_error), NoObject),
                           Event("fallback", 0, "", NoObject)>>
    /\ extracted' = fallback_regex_extraction(narrative)
    /\ pc' = "return"
    /\ UNCHANGED <<narrative, retries, attempt, last_error>>
    /\ UNCHANGED <<df, stats, idx, plate, once, twice, method, again, response>>

(***************************************************************************)
(* The orchestrator alone: one call of extract_with_llm_safe(narrative,    *)
(* crime_code, retries).                                                   *)
(***************************************************************************)
NoTable == << >>
NoResponse == Reply("transport", NoObject)
NoStats == [total_rows |-> 0, successful |-> 0, failed |-> 0, method_extracted |-> 0,
            suspects_found |-> 0, vehicles_found |-> 0]

InitOrch ==
    /\ pc = "attempt"
    /\ narrative \in Narratives
    /\ retries \in 0..MaxRetriesBound
    /\ attempt = 0
    /\ last_error = PyNone
    /\ extracted = NoObject
    /\ trace = << >>
    /\ df = NoTable /\ stats = NoStats /\ idx = 0
    /\ plate = PyNone /\ once = PyNone /\ twice = PyNone /\ method = ""
    /\ again = NoObject /\ response = NoResponse

NextOrch ==
    \/ \E reply \in Replies : Attempt(reply)
    \/ Fallback

SpecOrch == InitOrch /\ [][NextOrch]_vars

\* the calls of extract_with_llm the trace holds, in order
Calls == SelectSeq(trace, LAMBDA e : e.ev = "call")
AllCallsFailed == \A i \in 1..Len(Calls) : Calls[i].err # ""
\* the first call that succeeded is call k
FirstSuccessAt(k) ==
    /\ k \in 1..Len(Calls)
    /\ Calls[k].err = ""
    /\ \A i \in 1..(k - 1) : Calls[i].err # ""
\* no sleep follows the last call
NoSleepAfterLastCall ==
    \A i \in 1..Len(trace) :
        trace[i].ev = "sleep" => \E j \in (i + 1)..Len(trace) : trace[j].ev = "call"

\* C1: with retries >= 1 and every call of the client failing, the call that has
\* returned made exactly retries client calls and exactly retries - 1 sleeps, none
\* of them after the last failed call, and returned what fallback_regex_extraction
\* gives for the same narrative.
C1_RetryBound ==
    (pc = "return" /\ retries >= 1 /\ AllCallsFailed) =>
        /\ Count("call") = retries
        /\ Count("sleep") = retries - 1
        /\ NoSleepAfterLastCall
        /\ Count("fallback") = 1
        /\ extracted = fallback_regex_extraction(narrative)

C1_Witness ==
    /\ pc = "return" /\ retries = MAX_RETRIES /\ AllCallsFailed
    /\ Count("call") = MAX_RETRIES /\ Count("sleep") = MAX_RETRIES - 1
    /\ Len(extracted.vehicles.items) = 1

\* C2: when the first call of the client to succeed is call k, the call that has
\* returned made exactly k client calls and k - 1 sleeps, never ran the fallback,
\* and returned the dict call k gave, unmodified.
C2_ShortCircuit ==
    \A k \in 1..Len(Calls) :
        (pc = "return" /\ FirstSuccessAt(k)) =>
            /\ k <= retries
            /\ Count("call") = k
            /\ Count("sleep") = k - 1
            /\ Count("fallback") = 0
            /\ extracted = Calls[k].val

C2_Witness ==
    /\ pc = "return" /\ FirstSuccessAt(2) /\ Count("sleep") = 1
    /\ Len(extracted.suspects.items) = 3

\* how a call of extract_with_llm_safe has ended
Success ==
    /\ trace # << >> /\ trace[Len(trace)].ev = "call" /\ trace[Len(trace)].err = ""
    /\ extracted = trace[Len(trace)].val
FellBack ==
    /\ trace # << >> /\ trace[Len(trace)].ev = "fallback"
    /\ AllCallsFailed
Returned == pc = "return" /\ extracted.keys = ResultKeys /\ (Success \/ FellBack)

\* C3: whatever the client does on each call, the call of extract_with_llm_safe
\* never ends in a raised error: while it has not returned every call so far has
\* failed and at most retries calls were made; and once it has returned it is with
\* the dict of a successful call (SUCCESS) or, after all calls failed and the
\* fallback ran, with the fallback's result (FALLBACK).
C3_NeverRaises ==
    /\ pc \in {"attempt", "return"}
    /\ pc = "return" => Returned
    /\ pc = "attempt" => /\ Count("call") = attempt /\ attempt <= retries
                         /\ AllCallsFailed

C3_Witness ==
    /\ pc = "return" /\ FellBack
    /\ \E i, j \in 1..Len(Calls) : Calls[i].err # Calls[j].err

\* the shape section 3 of the specification gives an extraction result
Conforms(r) ==
    /\ r.suspects.t = "list" /\ Len(r.suspects.items) <= 2
    /\ r.vehicles.t = "list" /\ Len(r.vehicles.items) <= 1
    /\ r.method_of_entry.t = "str"
    /\ r.method_of_entry.s = NotSpecified \/ r.method_of_entry.s # ""

\* C4 as claimed: every result of extract_with_llm and of extract_with_llm_safe
\* has at most 2 suspects, at most 1 vehicle and an entry method that is the
\* sentinel or a non-empty string.
C4_EveryPathConforms ==
    /\ \A i \in 1..Len(Calls) : Calls[i].err = "" => Conforms(Calls[i].val)
    /\ pc = "return" => Conforms(extracted)

\* C4, amended: a result that comes from fallback_regex_extraction (alone, or
\* through extract_with_llm_safe after the retries are used up) has at most 2
\* suspects, at most 1 vehicle and an entry method that is the sentinel or a
\* non-empty string.
C4_FallbackConforms ==
    (pc = "return" /\ Count("fallback") = 1) =>
        Conforms(extracted) /\ Conforms(fallback_regex_extraction(narrative))

C4_Witness ==
    /\ pc = "return" /\ Count("fallback") = 1
    /\ Len(extracted.vehicles.items) = 1 /\ extracted.method_of_entry.s = NotSpecified
\* the positions of the warnings in the trace
Warnings == {i \in 1..Len(trace) : trace[i].ev = "print"}

\* C13: extract_with_llm_safe prints the fallback warning exactly when all retries
\* calls have failed: once, straight after the last failed call (no sleep between)
\* and straight before fallback_regex_extraction is called; the warning names the
\* number of calls made (3 with MAX_RETRIES) and the failure of the last call
\* ('None' when retries is 0 and no call was made); a call that returns a dict of
\* the service prints no warning, and none is printed while the loop runs.
C13_WarningBeforeFallback ==
    /\ pc = "attempt" => Warnings = {}
    /\ pc = "return" =>
           /\ Warnings # {} <=> (Len(Calls) = retries /\ AllCallsFailed)
           /\ Success => Warnings = {}
           /\ Warnings # {} =>
                  /\ Warnings = {Len(trace) - 1}
                  /\ trace[Len(trace)].ev = "fallback"
                  /\ extracted = fallback_regex_extraction(narrative)
                  /\ LET i == Len(trace) - 1
                     IN  /\ \A j \in 1..(i - 1) : trace[j].ev \in {"call", "sleep"}
                         /\ trace[i].n = Len(Calls)
                         /\ retries = MAX_RETRIES => trace[i].n = 3
                         /\ IF i = 1 THEN retries = 0 /\ trace[i].err = "None"
                            ELSE /\ trace[i - 1].ev = "call"
                                 /\ trace[i - 1].n = retries
                                 /\ trace[i - 1].err # ""
                                 /\ trace[i].err = trace[i - 1].err

C13_Witness ==
    /\ pc = "return" /\ retries = MAX_RETRIES
    /\ Len(trace) = 7
    /\ trace[4].ev = "sleep"
    /\ trace[5] = Event("call", 3, "LLM extraction failed: invalid_json", NoObject)
    /\ trace[6] = Event("print", 3, "LLM extraction failed: invalid_json", NoObject)
    /\ trace[7].ev = "fallback"
    /\ extracted = fallback_regex_extraction(narrative)

(***************************************************************************)
(* CrimeReportExtractor.process_row and process_all                        *)
(***************************************************************************)
\* "Max 2 suspects": extracted['suspects'][:2]
MaxSuspects == 2

\* a row of the table after initialize_output_columns
Row(cell) ==
    [crime_code |-> Str("220"), narrative |-> cell,
     method_of_entry |-> PyNone, suspect_1 |-> PyNone, suspect_2 |-> PyNone,
     vehicle_make |-> PyNone, vehicle_model |-> PyNone, vehicle_color |-> PyNone,
     vehicle_plate |-> PyNone]

\* the skip test without narrative.lower()
IsSkippedCaseSensitive(text) == text = "" \/ text \in {"nan", "none", ""}

\* "if not narrative or narrative.lower() in ['nan', 'none', '']"
IsSkipped(text) == text = "" \/ str_lower(text) \in {"nan", "none", ""}

Inc(st, counter) == [st EXCEPT ![counter] = @ + 1]

\* items[:n]
Take(items, n) == IF Len(items) <= n THEN items ELSE SubSeq(items, 1, n)

\* "if extracted.get('method_of_entry'): ..." on m: the row, the counters, and
\* whether an exception has been raised
ShapeMethod(m, ex) ==
    IF Truthy(Get(ex, "method_of_entry"))
    THEN [m EXCEPT !.row.method_of_entry = ex.method_of_entry,
                   !.stats = Inc(@, "method_extracted")]
    ELSE m

\* f'suspect_{i+1}'
SuspectColumn(i) == IF i = 0 THEN "suspect_1" ELSE "suspect_2"

\* the body of the suspects loop with "if i == 0" left out
SuspectStepCountsAll(m, i, suspect) ==
    IF suspect.t = "dict" /\ suspect.has_description
    THEN LET desc == clean_suspect_description(suspect.description)
         IN  IF desc.t = "raise" THEN [m EXCEPT !.raised = TRUE]
             ELSE IF Truthy(desc)
                  THEN [m EXCEPT !.row[SuspectColumn(i)] = desc,
                                 !.stats = Inc(@, "suspects_found")]
                  ELSE m
    ELSE m

\* the body of "for i, suspect in enumerate(extracted['suspects'][:2])"
SuspectStep(m, i, suspect) ==
    IF suspect.t = "dict" /\ suspect.has_description
    THEN LET desc == clean_suspect_description(suspect.description)
         IN  IF desc.t = "raise" THEN [m EXCEPT !.raised = TRUE]
             ELSE IF Truthy(desc)
                  THEN [m EXCEPT !.row[SuspectColumn(i)] = desc,
                                 !.stats = IF i = 0 THEN Inc(@, "suspects_found") ELSE @]
                  ELSE m
    ELSE m

RECURSIVE SuspectLoop(_, _, _)
SuspectLoop(m, items, i) ==
    IF i >= Len(items) \/ m.raised THEN m
    ELSE SuspectLoop(SuspectStep(m, i, items[i + 1]), items, i + 1)

ShapeSuspects(m, ex) ==
    LET suspects == Get(ex, "suspects")
    IN  IF ~m.raised /\ Truthy(suspects) /\ suspects.t = "list"
        THEN SuspectLoop(m, Take(suspects.items, MaxSuspects), 0)
        ELSE m

\* the body of "for vehicle in extracted['vehicles']" from element i on, to its break
RECURSIVE VehicleLoop(_, _, _)
VehicleLoop(m, items, i) ==
    IF i > Len(items) THEN m
    ELSE LET vehicle == items[i]
         IN  IF vehicle.t = "dict" /\ AnyVehicleValue(vehicle)
             THEN LET w == [m EXCEPT !.row.vehicle_make = vehicle.make,
                                     !.row.vehicle_model = vehicle.model,
                                     !.row.vehicle_color = vehicle.color]
                      p == format_license_plate(vehicle.plate)
                  IN  IF ~Truthy(vehicle.plate)
                      THEN [w EXCEPT !.stats = Inc(@, "vehicles_found")]
                      ELSE IF p.t = "raise" THEN [w EXCEPT !.raised = TRUE]
                      ELSE [w EXCEPT !.row.vehicle_plate = p,
                                     !.stats = Inc(@, "vehicles_found")]
             ELSE VehicleLoop(m, items, i + 1)

ShapeVehicles(m, ex) ==
    LET vehicles == Get(ex, "vehicles")
    IN  IF ~m.raised /\ Truthy(vehicles) /\ vehicles.t = "list"
        THEN VehicleLoop(m, vehicles.items, 1)
        ELSE m

\* process_row after the call of extract_with_llm_safe, up to "return True" or the
\* except clause
Shape(row, st, ex) ==
    ShapeVehicles(ShapeSuspects(ShapeMethod([row |-> row, stats |-> st, raised |-> FALSE],
                                            ex), ex), ex)

\* process_all: self.stats['total_rows'] = len(self.df)
BeginProcessAll ==
    /\ pc = "begin"
    /\ stats' = [stats EXCEPT !.total_rows = Len(df)]
    /\ idx' = 0
    /\ pc' = "loop"
    /\ UNCHANGED <<df, narrative, retries, attempt, last_error, extracted, trace,
                   plate, once, twice, method, again, response>>

\* a row whose narrative is skipped: process_row returns False, process_all counts
SkipRow ==
    /\ pc = "loop"
    /\ idx < Len(df)
    /\ IsSkipped(PyStr(df[idx + 1].narrative))
    /\ stats' = Inc(stats, "failed")
    /\ idx' = idx + 1
    /\ UNCHANGED <<pc, df, narrative, retries, attempt, last_error, extracted, trace,
                   plate, once, twice, method, again, response>>

\* EnterRow with one retry more than config.MAX_RETRIES
EnterRowExtraRetry ==
    /\ pc = "loop"
    /\ idx < Len(df)
    /\ ~IsSkipped(PyStr(df[idx + 1].narrative))
    /\ narrative' = PyStr(df[idx + 1].narrative)
    /\ retries' = MAX_RETRIES + 1
    /\ attempt' = 0
    /\ last_error' = PyNone
    /\ trace' = << >>
    /\ pc' = "attempt"
    /\ UNCHANGED <<df, stats, idx, extracted, plate, once, twice, method, again, response>>

\* a row whose narrative is not skipped: process_row calls extract_with_llm_safe
EnterRow ==
    /\ pc = "loop"
    /\ idx < Len(df)
    /\ ~IsSkipped(PyStr(df[idx + 1].narrative))
    /\ narrative' = PyStr(df[idx + 1].narrative)
    /\ retries' = MAX_RETRIES
    /\ attempt' = 0
    /\ last_error' = PyNone
    /\ trace' = << >>
    /\ pc' = "attempt"
    /\ UNCHANGED <<df, stats, idx, extracted, plate, once, twice, method, again, response>>

\* ShapeRow with no except clause around the row: the error leaves process_all
ShapeRowUncaught ==
    /\ pc = "return"
    /\ LET m == Shape(df[idx + 1], stats, extracted)
       IN  /\ df' = [df EXCEPT ![idx + 1] = m.row]
           /\ stats' = IF m.raised THEN m.stats ELSE Inc(m.stats, "successful")
           /\ idx' = IF m.raised THEN idx ELSE idx + 1
           /\ pc' = IF m.raised THEN "raised" ELSE "loop"
    /\ narrative' = "" /\ retries' = 0 /\ attempt' = 0 /\ last_error' = PyNone
    /\ extracted' = NoObject /\ trace' = << >>
    /\ UNCHANGED <<plate, once, twice, method, again, response>>

\* the rest of process_row once extract_with_llm_safe has returned, and the
\* counting of its result by process_all
ShapeRow ==
    /\ pc = "return"
    /\ LET m == Shape(df[idx + 1], stats, extracted)
       IN  /\ df' = [df EXCEPT ![idx + 1] = m.row]
           /\ stats' = Inc(m.stats, IF m.raised THEN "failed" ELSE "successful")
    /\ idx' = idx + 1
    /\ pc' = "loop"
    /\ narrative' = "" /\ retries' = 0 /\ attempt' = 0 /\ last_error' = PyNone
    /\ extracted' = NoObject /\ trace' = << >>
    /\ UNCHANGED <<plate, once, twice, method, again, response>>

\* the for loop of process_all is over
EndProcessAll ==
    /\ pc = "loop"
    /\ idx = Len(df)
    /\ pc' = "done"
    /\ UNCHANGED <<df, stats, idx, narrative, retries, attempt, last_error, extracted,
                   trace, plate, once, twice, method, again, response>>

\* the tables process_all is given: up to MaxRows rows
Tables == UNION {[1..n -> {Row(c) : c \in Cells}] : n \in 0..MaxRows}

Init ==
    /\ pc = "begin"
    /\ df \in Tables
    /\ stats = NoStats
    /\ idx = 0
    /\ narrative = "" /\ retries = 0 /\ attempt = 0 /\ last_error = PyNone
    /\ extracted = NoObject /\ trace = << >>
    /\ plate = PyNone /\ once = PyNone /\ twice = PyNone /\ method = ""
    /\ again = NoObject /\ response = NoResponse

Next ==
    \/ BeginProcessAll
    \/ SkipRow
    \/ EnterRow
    \/ \E reply \in RowReplies : Attempt(reply)
    \/ Fallback
    \/ ShapeRow
    \/ EndProcessAll

Spec == Init /\ [][Next]_vars

\* the texts of a narrative that is skipped
SkipTexts == {"", "nan", "Nan", "nAn", "naN", "NAn", "NaN", "nAN", "NAN",
              "none", "None", "nOne", "noNe", "nonE", "NOne", "NoNe", "NonE",
              "nONe", "nOnE", "noNE", "NONe", "NOnE", "NoNE", "nONE", "NONE"}

\* C5: a row whose narrative text is empty, or 'nan' or 'none' in any letter case,
\* is counted in failed and changes no other counter; no column of the table is
\* written and no extraction is called for it.
C5_SkippedRowCountsFailed ==
    [][(pc = "loop" /\ idx < Len(df) /\ PyStr(df[idx + 1].narrative) \in SkipTexts) =>
           /\ stats' = [stats EXCEPT !.failed = @ + 1]
           /\ df' = df
           /\ idx' = idx + 1
           /\ pc' = "loop"
           /\ trace' = trace]_vars

C5_Witness ==
    /\ pc = "done" /\ Len(df) = 2
    /\ df[1].narrative = Str("NaN") /\ df[2].narrative = PyNone
    /\ stats.failed = 2 /\ stats.successful = 0

\* the result names an entry method
MethodFound(ex) ==
    /\ ex.method_of_entry.t = "str"
    /\ ex.method_of_entry.s # ""
    /\ ex.method_of_entry.s # NotSpecified

\* C6 as claimed: process_row writes the method_of_entry column and increments
\* method_extracted if and only if the entry method of the result is a non-empty
\* string other than the 'Not specified' sentinel.
C6_MethodOnlyIfFound ==
    [][pc = "return" =>
           /\ stats'.method_extracted =
                  stats.method_extracted + (IF MethodFound(extracted) THEN 1 ELSE 0)
           /\ (df'[idx + 1].method_of_entry # PyNone) <=> MethodFound(extracted)]_vars

\* C7: every row is classified exactly once: between rows successful + failed is
\* the number of rows gone through; the row that raises while it is shaped adds
\* one to failed, the row that does not adds one to successful, and either way the
\* loop goes on to the next row; when process_all is done successful + failed is
\* total_rows, the length of the table.
C7_EveryRowClassifiedOnce ==
    [][/\ pc = "return" =>
              LET raised == Shape(df[idx + 1], stats, extracted).raised
              IN  /\ stats'.successful = stats.successful + (IF raised THEN 0 ELSE 1)
                  /\ stats'.failed = stats.failed + (IF raised THEN 1 ELSE 0)
                  /\ idx' = idx + 1
                  /\ pc' = "loop"
       /\ pc' # "begin" => /\ stats'.successful + stats'.failed = idx'
                           /\ stats'.total_rows = Len(df')
       /\ pc' = "done" => stats'.successful + stats'.failed = stats'.total_rows]_vars

C7_Witness ==
    /\ pc = "done" /\ Len(df) = 2
    /\ ~IsSkipped(PyStr(df[1].narrative)) /\ ~IsSkipped(PyStr(df[2].narrative))
    /\ stats.failed = 1 /\ stats.successful = 1
    /\ df[1].suspect_1 # PyNone /\ df[1].suspect_2 = PyNone
    /\ df[2].method_of_entry = PyNone /\ df[2].suspect_1 = PyNone
    /\ df[2].vehicle_make = PyNone /\ df[2].vehicle_color = PyNone

\* suspect k of a result has a description to write, and what is written of it
Described(suspects, k) ==
    /\ suspects.t = "list"
    /\ Len(suspects.items) >= k
    /\ suspects.items[k].t = "dict"
    /\ suspects.items[k].has_description
    /\ suspects.items[k].description.t = "str"
    /\ suspects.items[k].description.s # "null"
    /\ str_strip(suspects.items[k].description.s) # ""

Cleaned(suspects, k) == Str(Prefix(str_strip(suspects.items[k].description.s), DescCap))

\* C10: of a result's suspects process_row looks at the first two only:
\* suspects_found goes up by one exactly when the first suspect has a description
\* that is a string, is not the literal 'null' and is not empty once stripped, and
\* not at all otherwise, whatever the second suspect is; a suspect column that is
\* written holds the cleaned description of the suspect at its own position.
C10_FirstTwoSuspectsOnly ==
    [][pc = "return" =>
           /\ stats'.suspects_found =
                  stats.suspects_found + (IF Described(extracted.suspects, 1) THEN 1 ELSE 0)
           /\ df'[idx + 1].suspect_1 # PyNone =>
                  /\ Described(extracted.suspects, 1)
                  /\ df'[idx + 1].suspect_1 = Cleaned(extracted.suspects, 1)
           /\ df'[idx + 1].suspect_2 # PyNone =>
                  /\ Described(extracted.suspects, 2)
                  /\ df'[idx + 1].suspect_2 = Cleaned(extracted.suspects, 2)]_vars

C10_Witness ==
    /\ pc = "loop" /\ idx = 1
    /\ df[1].suspect_1 = PyNone /\ df[1].suspect_2 = Str("female")
    /\ stats.suspects_found = 0 /\ stats.successful = 1

\* C14: process_all takes the rows one at a time in input order. A row whose
\* narrative is empty, 'nan' or 'none' in any letter case is passed without a call
\* of extract_with_llm_safe and without a request. For any other row
\* extract_with_llm_safe is called once, on that row's narrative and with
\* MAX_RETRIES retries; the index stays on the row until the call has returned and
\* moves to the next row when its result has been shaped, and the call makes at
\* most MAX_RETRIES requests.
C14_OneInvocationPerRow ==
    [][/\ idx' \in {idx, idx + 1}
       /\ (pc = "loop" /\ idx < Len(df)) =>
              LET text == PyStr(df[idx + 1].narrative)
              IN  IF text \in SkipTexts
                  THEN pc' = "loop" /\ idx' = idx + 1 /\ trace = << >> /\ trace' = << >>
                  ELSE /\ pc' = "attempt" /\ idx' = idx
                       /\ narrative' = text /\ retries' = MAX_RETRIES
                       /\ attempt' = 0 /\ trace' = << >>
       /\ pc \in {"attempt", "return"} =>
              /\ idx < Len(df)
              /\ narrative = PyStr(df[idx + 1].narrative)
              /\ narrative \notin SkipTexts
              /\ Len(Calls) <= MAX_RETRIES
              /\ Len(SelectSeq(trace', LAMBDA e : e.ev = "call")) <= MAX_RETRIES
              /\ pc = "attempt" => idx' = idx /\ pc' \in {"attempt", "return"}
              /\ pc = "return" => idx' = idx + 1 /\ pc' = "loop" /\ trace' = << >>
       /\ pc \in {"begin", "done"} => trace = << >> /\ trace' = << >>]_vars

C14_Witness ==
    /\ pc = "return" /\ idx = 1 /\ Len(df) = 2
    /\ df[1].narrative = NaN /\ stats.failed = 1
    /\ narrative = "x" /\ Len(Calls) = MAX_RETRIES
    /\ Success

\* a vehicle of a result with at least one of make, model, color, plate populated
Populated(vehicle) ==
    /\ vehicle.t = "dict"
    /\ \/ Truthy(vehicle.make) \/ Truthy(vehicle.model)
       \/ Truthy(vehicle.color) \/ Truthy(vehicle.plate)

\* the position of the first populated vehicle of a list, 0 when it has none
FirstPopulated(items) ==
    IF \E k \in 1..Len(items) : Populated(items[k])
    THEN CHOOSE k \in 1..Len(items) :
             Populated(items[k]) /\ \A j \in 1..(k - 1) : ~Populated(items[j])
    ELSE 0

\* the row reaches its vehicles: shaping the method and the suspects raised nothing
ReachesVehicles ==
    /\ pc = "return"
    /\ extracted.vehicles.t = "list"
    /\ ~ShapeSuspects(ShapeMethod([row |-> df[idx + 1], stats |-> stats, raised |-> FALSE],
                                  extracted), extracted).raised

\* C11 as claimed: for a result with any number of vehicles process_row fills the
\* vehicle columns from the first vehicle in list order with at least one of make,
\* model, color, plate populated (the plate upper-cased, separators stripped),
\* ignores every later vehicle, and increments vehicles_found exactly once if
\* there is such a vehicle and not at all otherwise.
C11_FirstPopulatedVehicle ==
    [][ReachesVehicles =>
           LET k == FirstPopulated(extracted.vehicles.items)
               row == df'[idx + 1]
           IN  IF k = 0
               THEN /\ stats'.vehicles_found = stats.vehicles_found
                    /\ row.vehicle_make = PyNone /\ row.vehicle_model = PyNone
                    /\ row.vehicle_color = PyNone /\ row.vehicle_plate = PyNone
               ELSE LET vehicle == extracted.vehicles.items[k]
                    IN  /\ stats'.vehicles_found = stats.vehicles_found + 1
                        /\ row.vehicle_make = vehicle.make
                        /\ row.vehicle_model = vehicle.model
                        /\ row.vehicle_color = vehicle.color
                        /\ (vehicle.plate.t = "str" /\ vehicle.plate.s \notin {"", "null"}) =>
                               row.vehicle_plate =
                                   Str(str_replace(str_replace(str_upper(vehicle.plate.s),
                                                               " ", ""), "-", ""))]_vars

\* C16 as claimed: a row that process_all counts in failed, skipped or raising
\* while its output is shaped, changes none of method_extracted, suspects_found,
\* vehicles_found; so between rows each of the three is at most successful.
C16_FailedRowChangesNoCounter ==
    [][/\ stats'.failed = stats.failed + 1 =>
              /\ stats'.method_extracted = stats.method_extracted
              /\ stats'.suspects_found = stats.suspects_found
              /\ stats'.vehicles_found = stats.vehicles_found
       /\ pc' = "loop" =>
              /\ stats'.method_extracted <= stats'.successful
              /\ stats'.suspects_found <= stats'.successful
              /\ stats'.vehicles_found <= stats'.successful]_vars

(***************************************************************************)
(* format_license_plate alone, applied twice to one plate.                 *)
(***************************************************************************)
PlateAlphabet == {"a", "B", "7", " ", "-"}

RECURSIVE StringsUpTo(_, _)
StringsUpTo(alphabet, n) ==
    IF n = 0 THEN {""}
    ELSE LET shorter == StringsUpTo(alphabet, n - 1)
         IN  shorter \cup {s \o c : s \in shorter, c \in alphabet}

Plates == {PyNone, Str("null")} \cup {Str(p) : p \in StringsUpTo(PlateAlphabet, MaxPlateLen)}

FormatOnce ==
    /\ pc = "plate"
    /\ once' = format_license_plate(plate)
    /\ pc' = "formatted"
    /\ UNCHANGED <<df, stats, idx, narrative, retries, attempt, last_error, extracted,
                   trace, plate, twice, method, again, response>>

FormatTwice ==
    /\ pc = "formatted"
    /\ twice' = format_license_plate(once)
    /\ pc' = "formatted_twice"
    /\ UNCHANGED <<df, stats, idx, narrative, retries, attempt, last_error, extracted,
                   trace, plate, once, method, again, response>>

InitPlate ==
    /\ pc = "plate"
    /\ plate \in Plates
    /\ once = PyNone /\ twice = PyNone /\ method = ""
    /\ again = NoObject /\ response = NoResponse
    /\ df = NoTable /\ stats = NoStats /\ idx = 0
    /\ narrative = "" /\ retries = 0 /\ attempt = 0 /\ last_error = PyNone
    /\ extracted = NoObject /\ trace = << >>

NextPlate == FormatOnce \/ FormatTwice

SpecPlate == InitPlate /\ [][NextPlate]_vars

\* C8 as claimed: format_license_plate applied twice gives what it gives applied
\* once, for every plate string.
C8_FormatIdempotent == pc = "formatted_twice" => twice = once

(***************************************************************************)
(* fallback_regex_extraction alone, called twice on one narrative.         *)
(***************************************************************************)
VehicleWords == {"red", "Honda", "grey toyota", "ABC-1234", "7abc123", "ab", "1234",
                 "redder", "plate", "ABC 123X", "broke window", "x"}

\* the narratives of up to n of these words, a space between two words
RECURSIVE VehiclePhrases(_)
VehiclePhrases(n) ==
    IF n = 0 THEN {""}
    ELSE LET shorter == VehiclePhrases(n - 1)
         IN  shorter \cup {IF s = "" THEN w ELSE s \o " " \o w :
                               s \in shorter, w \in VehicleWords}

FallbackOnce ==
    /\ pc = "narrative"
    /\ extracted' = fallback_regex_extraction(narrative)
    /\ pc' = "fell_back"
    /\ UNCHANGED <<df, stats, idx, narrative, retries, attempt, last_error, trace,
                   plate, once, twice, method, again, response>>

FallbackAgain ==
    /\ pc = "fell_back"
    /\ again' = fallback_regex_extraction(narrative)
    /\ pc' = "fell_back_again"
    /\ UNCHANGED <<df, stats, idx, narrative, retries, attempt, last_error, extracted,
                   trace, plate, once, twice, method, response>>

InitFallback ==
    /\ pc = "narrative"
    /\ narrative \in VehiclePhrases(MaxWords)
    /\ extracted = NoObject /\ again = NoObject
    /\ method = "" /\ plate = PyNone /\ once = PyNone /\ twice = PyNone
    /\ df = NoTable /\ stats = NoStats /\ idx = 0
    /\ retries = 0 /\ attempt = 0 /\ last_error = PyNone
    /\ trace = << >> /\ response = NoResponse

NextFallback == FallbackOnce \/ FallbackAgain

SpecFallback == InitFallback /\ [][NextFallback]_vars

\* a make, a color or a plate is found in the narrative
VehicleFound(text) ==
    \/ \E k \in 1..Len(makes) : WordSearch(makes[k], str_lower(text))
    \/ \E k \in 1..Len(colors) : WordSearch(colors[k], str_lower(text))
    \/ \E k \in 1..Len(patterns) : PlateSearch(patterns[k], str_upper(text)).found

\* a result of fallback_regex_extraction for the narrative, as C12 describes it
FallbackShaped(r, text) ==
    /\ r.keys = ResultKeys
    /\ r.method_of_entry.t = "str"
    /\ r.suspects = List(<< >>)
    /\ r.vehicles.t = "list"
    /\ Len(r.vehicles.items) = (IF VehicleFound(text) THEN 1 ELSE 0)
    /\ \A k \in 1..Len(r.vehicles.items) :
           LET vehicle == r.vehicles.items[k]
           IN  /\ vehicle.t = "dict"
               /\ vehicle.model = PyNone
               /\ {vehicle.make.t, vehicle.color.t, vehicle.plate.t} \subseteq {"str", "None"}
               /\ vehicle.make # PyNone \/ vehicle.color # PyNone \/ vehicle.plate # PyNone

ClientReplies ==
    {Reply(k, NoObject) : k \in FailureKinds}
    \cup {Reply("object", Object(m, su, v)) :
             m \in MethodValues, su \in SuspectValues, v \in VehicleValues}

\* one call of extract_with_llm: the dict it returns, or the Exception it raises
CallClient ==
    /\ pc = "request"
    /\ LET r == extract_with_llm(response)
       IN  /\ extracted' = r.value
           /\ last_error' = IF r.ok THEN PyNone ELSE Str(r.error)
           /\ pc' = IF r.ok THEN "returned" ELSE "raised"
    /\ UNCHANGED <<df, stats, idx, narrative, retries, attempt, trace,
                   plate, once, twice, method, again, response>>

InitClient ==
    /\ pc = "request"
    /\ response \in ClientReplies
    /\ narrative \in Narratives
    /\ extracted = NoObject /\ last_error = PyNone
    /\ again = NoObject /\ method = ""
    /\ plate = PyNone /\ once = PyNone /\ twice = PyNone
    /\ df = NoTable /\ stats = NoStats /\ idx = 0
    /\ retries = 0 /\ attempt = 0 /\ trace = << >>

NextClient == CallClient

SpecClient == InitClient /\ [][NextClient]_vars

\* the one failure condition: an Exception whose message starts this way
FailurePrefix == "LLM extraction failed: "

\* C15: extract_with_llm raises the one extraction-failure Exception for a
\* transport error, a non-success status, an unparseable payload and a parsed
\* payload that is no object, and returns nothing then; for a parsed object it
\* returns the object, a key among method_of_entry, suspects, vehicles that is
\* present holding the value it had, and one that is absent holding None, [] and
\* [] respectively.
C15_OneFailureAndBackfill ==
    /\ pc \in {"request", "returned", "raised"}
    /\ pc # "request" => (pc = "raised" <=> response.kind \in FailureKinds)
    /\ pc = "raised" =>
           /\ last_error.t = "str"
           /\ Prefix(last_error.s, Len(FailurePrefix)) = FailurePrefix
           /\ extracted = NoObject
    /\ pc = "returned" =>
           LET d == response.obj
           IN  /\ response.kind = "object"
               /\ last_error = PyNone
               /\ extracted.keys = ResultKeys
               /\ extracted.method_of_entry =
                      (IF "method_of_entry" \in d.keys THEN d.method_of_entry ELSE PyNone)
               /\ extracted.suspects =
                      (IF "suspects" \in d.keys THEN d.suspects ELSE List(<< >>))
               /\ extracted.vehicles =
                      (IF "vehicles" \in d.keys THEN d.vehicles ELSE List(<< >>))
               /\ d.method_of_entry.t = "absent" <=> "method_of_entry" \notin d.keys
               /\ d.suspects.t = "absent" <=> "suspects" \notin d.keys
               /\ d.vehicles.t = "absent" <=> "vehicles" \notin d.keys

C15_Witness ==
    /\ pc = "returned"
    /\ response.obj.keys = {"suspects"}
    /\ response.obj.suspects = List(<<SuspectA, SuspectB, SuspectC>>)
    /\ extracted.method_of_entry = PyNone
    /\ extracted.suspects = List(<<SuspectA, SuspectB, SuspectC>>)
    /\ extracted.vehicles = List(<< >>)

(***************************************************************************)
(* extract_entry_method_regex alone, on one narrative.                     *)
(***************************************************************************)
EntryWords == {"Smashed the window", "unknown entry", "broke", "the big rear window",
               "a very large rear window", "broke\nglass", "pried", "door", "kicked",
               "picked the lock", "unlocked", "cut screen", "garage", "x"}

\* the narratives of up to n words, a space between two words
RECURSIVE Phrases(_)
Phrases(n) ==
    IF n = 0 THEN {""}
    ELSE LET shorter == Phrases(n - 1)
         IN  shorter \cup {IF s = "" THEN w ELSE s \o " " \o w : s \in shorter, w \in EntryWords}

ExtractEntryMethod ==
    /\ pc = "entry"
    /\ method' = extract_entry_method_regex(narrative)
    /\ pc' = "extracted"
    /\ UNCHANGED <<df, stats, idx, narrative, retries, attempt, last_error, extracted,
                   trace, plate, once, twice, again, response>>

InitEntry ==
    /\ pc = "entry"
    /\ narrative \in Phrases(MaxWords)
    /\ method = ""
    /\ plate = PyNone /\ once = PyNone /\ twice = PyNone
    /\ again = NoObject /\ response = NoResponse
    /\ df = NoTable /\ stats = NoStats /\ idx = 0
    /\ retries = 0 /\ attempt = 0 /\ last_error = PyNone
    /\ extracted = NoObject /\ trace = << >>

NextEntry == ExtractEntryMethod

SpecEntry == InitEntry /\ [][NextEntry]_vars

\* the order and the labels of the rules
RuleOrder == << "window_smash", "door_pry", "door_kick", "lock_pick", "unlocked",
                "cut_screen", "garage_door", "unknown" >>
RuleLabels == << "window smash", "door pry", "door kick", "lock pick", "unlocked",
                 "cut screen", "garage door", "unknown" >>

\* the rules, by name, found in the narrative
RulesFound(text) ==
    {k \in 1..Len(RuleOrder) :
        \E j \in 1..Len(entry_methods) :
            entry_methods[j].method = RuleOrder[k] /\ PatternSearch(entry_methods[j], text)}

\* C9: extract_entry_method_regex returns the label of the first rule, in the order
\* window_smash, door_pry, door_kick, lock_pick, unlocked, cut_screen, garage_door,
\* unknown, whose pattern is found in the lower-cased narrative, and 'Not
\* specified' exactly when no pattern is found; "Smashed the window unknown entry"
\* gives 'window smash'.
C9_FirstRuleWins ==
    pc = "extracted" =>
        LET found == RulesFound(str_lower(narrative))
        IN  /\ found = {} <=> method = NotSpecified
            /\ found # {} => \E k \in found : /\ \A j \in found : k <= j
                                              /\ method = RuleLabels[k]
            /\ narrative = "Smashed the window unknown entry" => method = "window smash"

C9_Witness ==
    /\ pc = "extracted"
    /\ narrative = "Smashed the window unknown entry"
    /\ RulesFound(str_lower(narrative)) = {1, 8}
    /\ method = "window smash"

====
